---- MODULE Spec2Model ----
(***************************************************************************)
(* Gesture bridge (Workshop2_CAM2CV/cv-modules/gesture_detection.py):      *)
(* the temporal smoother GestureSmoother and the per-frame detection loop  *)
(* run_detection that feeds it.                                            *)
(*                                                                         *)
(* Numbers.  Every float of a GestureResult is kept in hundredths as an    *)
(* integer (0.65 is 65, hue 210.0 is 21000); seconds are kept in           *)
(* hundredths of a second.  alpha is kept in hundredths too, so _ema is    *)
(* (prev*(100-alpha) + new*alpha) \div 100: the quotient is cut to the     *)
(* resolution of the model, as a float is cut to the resolution of a       *)
(* double.                                                                 *)
(***************************************************************************)
EXTENDS Integers, Sequences, FiniteSets, TLC

VARIABLES
    window,         \* GestureSmoother.window
    min_switch,     \* GestureSmoother.min_switch
    min_conf,       \* GestureSmoother.min_conf
    alpha,          \* GestureSmoother.alpha
    history,        \* GestureSmoother.history, oldest first
    current_label,  \* GestureSmoother.current_label, None before the first update
    smoothed,       \* GestureSmoother.smoothed: <<>> is None, <<r>> is the record r
    last_new,       \* the argument of the latest update: <<>> before the first
    prev_label,     \* current_label as it was when the latest update was entered
    prev_history,   \* history as it was when the latest update was entered
    seen,           \* the gestures of all observations passed to update so far
    run_len,        \* length of the current run of consecutive confident
                    \* observations of one gesture (that of last_new), capped
    run_from,       \* current_label as it was when that run began
    hand,           \* run_detection: whether the latest frame showed a hand
    presence_age,   \* run_detection: now - last_presence at the latest frame, capped
    emit_age,       \* run_detection: now - last_emit after the latest frame, capped
    payload,        \* the latest payload handed to enqueue_payload: <<>> before the first
    ws_rate,        \* args.ws_rate, in hundredths of a record per second
    variant,        \* which script runs: "gesture" or "expression"
    steps,          \* number of steps taken so far, where a specification
                    \* bounds them: frames of the stream, calls of update
    emit_gap,       \* now - last_emit as the latest emission found it, capped
    stop_event,     \* threading.Event stop_event
    prod,           \* where the detection thread is in run_detection: "head"
                    \* (waiting for a frame), "body", "finally", "shutdown"
                    \* (about to enqueue the sentinel), "returned", "raised"
    ready,          \* the _put calls scheduled on the event loop, oldest first
    queue,          \* the asyncio.Queue, oldest first
    enqueued,       \* the items whose _put was scheduled so far, in order
    last_put,       \* the latest _put: the queue it found, the item and the
                    \* queue it left; <<>> before the first
    main,           \* where the main thread is: in websocket_main at "check",
                    \* "get", "broadcast" or "closing", after it at
                    \* "stopping", "join" or "closed"
    held,           \* the item websocket_main took last: <<>> before the first
    sent,           \* the items handed to hub.broadcast, in order
    server_open,    \* the websockets server is open
    call,           \* one call of a pure function: its name, argument and result
    prev_smoothed,  \* smoothed as it was when the latest update of a smoother
                    \* under several alphas was entered
    prev_new,       \* last_new as it was then
    response,       \* MJPEGStream._response: "none", "live" (a response that
                    \* delivers chunks) or "spent" (one that delivers no more)
    open_count,     \* the HTTP responses obtained and not closed
    buffer,         \* the local buffer of MJPEGStream.frames
    spc,            \* where frames() is: "start", "read", "yield" (suspended
                    \* at its yield), "closed" (in its handler, after close())
                    \* or "raised"
    cut,            \* the frame candidate the latest chunk cut out: <<>> if none
    appended,       \* the buffer as the latest chunk extended it, before any
                    \* cut: <<>> when no chunk came since the last reconnect
    ws_path,        \* args.ws_path
    clients,        \* WebSocketHub._clients
    conn,           \* per websocket, where its connection handler is: "new"
                    \* (not connected), "rejected", "hello" (registered, the
                    \* hello not sent yet), "open" (in wait_closed), "closed"
                    \* (connection closed, the finally clause still to run),
                    \* "done"
    inbox,          \* per websocket, the messages sent to it, in order
    mismatch,       \* the websockets whose request path is not args.ws_path
    casting,        \* the broadcast under way: <<>> or its message, its
                    \* targets still to be sent to, all its targets and those
                    \* whose send failed
    last_cast       \* the latest broadcast that ended, as casting

smoother == <<window, min_switch, min_conf, alpha, history, current_label, smoothed>>
ghost == <<last_new, prev_label, prev_history, seen, run_len, run_from>>
pipeline == <<hand, presence_age, emit_age, payload, ws_rate>>
bridge == <<variant, emit_gap, stop_event, prod, ready, enqueued, queue,
            last_put, main, held, sent, server_open>>
entry == <<prev_smoothed, prev_new>>
stream == <<response, open_count, buffer, spc, cut, appended>>
hub == <<ws_path, clients, conn, inbox, mismatch, casting, last_cast>>
vars == <<smoother, ghost, pipeline, steps, bridge, call, entry, stream, hub>>

None == "None"

\* Cap of the ghost counter run_len.
MaxRun == 5

\* Cap of the clock difference presence_age: the loop only compares it with
\* a threshold below the cap.
AgeCap == 76

\* Cap of the clock difference emit_age: two seconds, the longest interval
\* 1/N among the rates N of the specifications.
EmitAgeCap == 200

\* Defaults of GestureSmoother.__init__, which run_detection passes again.
DefaultWindow == 8
DefaultMinSwitch == 4
DefaultMinConf == 65
DefaultEma == 25

Max(a, b) == IF a >= b THEN a ELSE b
Min(a, b) == IF a <= b THEN a ELSE b

(***************************************************************************)
(* GestureSmoother                                                         *)
(***************************************************************************)

\* Mutant of DequeAppend: a list without maxlen, which never evicts.
DequeAppendUnbounded(h, x, n) == Append(h, x)

\* deque(maxlen=n).append(x): a full deque drops its oldest entry.
DequeAppend(h, x, n) ==
    IF Len(h) < n THEN Append(h, x) ELSE Append(Tail(h), x)

\* Mutant of Admitted: the test without its "idle" clause.
AdmittedConfidentOnly(new, mc) == new.confidence >= mc

\* The vote admission test of update.
Admitted(new, mc) == new.confidence >= mc \/ new.gesture = "idle"

\* history after the admission step of update.
Admit(h, new, w, mc) ==
    IF Admitted(new, mc) THEN DequeAppend(h, new.gesture, w) ELSE h

\* counts.get(g, 0) for the tally of h.
CountOf(h, g) == Cardinality({i \in 1..Len(h) : h[i] = g})

\* Mutant of Candidate: of the labels with the largest count, the one whose
\* last entry is the newest.
CandidateLastMet(h, next_label) ==
    IF Len(h) = 0 THEN next_label
    ELSE LET best == {i \in 1..Len(h) :
                        \A j \in 1..Len(h) : CountOf(h, h[j]) <= CountOf(h, h[i])}
         IN  h[CHOOSE i \in best : \A j \in best : j <= i]

\* max(counts.items(), key=count)[0] if counts else next_label: the dict keeps
\* its keys in order of first occurrence in h, and max returns the first of the
\* largest, so the candidate is the entry at the least index whose gesture has
\* the largest count.
Candidate(h, next_label) ==
    IF Len(h) = 0 THEN next_label
    ELSE LET best == {i \in 1..Len(h) :
                        \A j \in 1..Len(h) : CountOf(h, h[j]) <= CountOf(h, h[i])}
         IN  h[CHOOSE i \in best : \A j \in best : i <= j]

\* Mutants of NextLabel.
\* The switch without the count test.
NextLabelNoCount(cur, h, new, ms, mc) ==
    IF cur = None THEN new.gesture
    ELSE IF new.gesture = cur THEN new.gesture
    ELSE LET candidate == Candidate(h, new.gesture)
         IN  IF candidate = cur THEN cur
             ELSE IF new.confidence >= mc THEN candidate ELSE cur

\* The switch without the confidence test.
NextLabelNoConf(cur, h, new, ms, mc) ==
    IF cur = None THEN new.gesture
    ELSE IF new.gesture = cur THEN new.gesture
    ELSE LET candidate == Candidate(h, new.gesture)
         IN  IF candidate = cur THEN cur
             ELSE IF CountOf(h, candidate) >= ms THEN candidate ELSE cur

\* The confidence test with > for >=.
NextLabelStrictConf(cur, h, new, ms, mc) ==
    IF cur = None THEN new.gesture
    ELSE IF new.gesture = cur THEN new.gesture
    ELSE LET candidate == Candidate(h, new.gesture)
         IN  IF candidate = cur THEN cur
             ELSE IF CountOf(h, candidate) >= ms /\ new.confidence > mc
                  THEN candidate
                  ELSE cur

\* The count test with > for >=.
NextLabelStrictCount(cur, h, new, ms, mc) ==
    IF cur = None THEN new.gesture
    ELSE IF new.gesture = cur THEN new.gesture
    ELSE LET candidate == Candidate(h, new.gesture)
         IN  IF candidate = cur THEN cur
             ELSE IF CountOf(h, candidate) > ms /\ new.confidence >= mc
                  THEN candidate
                  ELSE cur

\* The switch commits the incoming label in place of the candidate.
NextLabelKeepsIncoming(cur, h, new, ms, mc) ==
    IF cur = None THEN new.gesture
    ELSE IF new.gesture = cur THEN new.gesture
    ELSE LET candidate == Candidate(h, new.gesture)
         IN  IF candidate = cur THEN cur
             ELSE IF CountOf(h, candidate) >= ms /\ new.confidence >= mc
                  THEN new.gesture
                  ELSE cur

\* The first commit asks for a confident observation.
NextLabelFirstNeedsConf(cur, h, new, ms, mc) ==
    IF cur = None THEN (IF new.confidence >= mc THEN new.gesture ELSE None)
    ELSE IF new.gesture = cur THEN new.gesture
    ELSE LET candidate == Candidate(h, new.gesture)
         IN  IF candidate = cur THEN cur
             ELSE IF CountOf(h, candidate) >= ms /\ new.confidence >= mc
                  THEN candidate
                  ELSE cur

\* No vote: the incoming label is committed at once.
NextLabelIncoming(cur, h, new, ms, mc) == new.gesture

\* The count test also passes for a candidate that fills the whole window.
NextLabelWindowFull(cur, h, new, ms, mc) ==
    IF cur = None THEN new.gesture
    ELSE IF new.gesture = cur THEN new.gesture
    ELSE LET candidate == Candidate(h, new.gesture)
         IN  IF candidate = cur THEN cur
             ELSE IF (CountOf(h, candidate) >= ms \/ CountOf(h, candidate) = Len(h))
                     /\ new.confidence >= mc
                  THEN candidate
                  ELSE cur

\* The vote is held also when the incoming label is the committed one.
NextLabelAlwaysVotes(cur, h, new, ms, mc) ==
    IF cur = None THEN new.gesture
    ELSE LET candidate == Candidate(h, new.gesture)
         IN  IF candidate = cur THEN cur
             ELSE IF CountOf(h, candidate) >= ms /\ new.confidence >= mc
                  THEN candidate
                  ELSE cur

\* The label decision of update: cur is current_label on entry, h the history
\* after admission.
NextLabel(cur, h, new, ms, mc) ==
    IF cur = None THEN new.gesture
    ELSE IF new.gesture = cur THEN new.gesture
    ELSE LET candidate == Candidate(h, new.gesture)
         IN  IF candidate = cur THEN cur
             ELSE IF CountOf(h, candidate) >= ms /\ new.confidence >= mc
                  THEN candidate
                  ELSE cur

\* Mutant of Ema: the previous value is not weighted down.
EmaNoDecay(prev, new, a) == (prev * 100 + new * a) \div 100

\* Mutant of Ema: the two weights exchanged.
EmaSwapped(prev, new, a) == (prev * a + new * (100 - a)) \div 100

\* Mutant of Ema: the mean of the two values, whatever alpha.
EmaMean(prev, new, a) == (prev + new) \div 2

\* GestureSmoother._ema in hundredths.
Ema(prev, new, a) == (prev * (100 - a) + new * a) \div 100

\* Mutant of Smooth: the incoming observation as it is.
SmoothRaw(s, new, next_label, a) == new

\* The record update stores in self.smoothed and returns: s is self.smoothed on
\* entry (<<>> for None).
Smooth(s, new, next_label, a) ==
    IF s = <<>>
    THEN [gesture |-> next_label,
          confidence |-> new.confidence,
          hue |-> new.hue,
          launch_power |-> new.launch_power,
          spark_density |-> new.spark_density,
          twist |-> new.twist,
          center |-> new.center,
          handedness |-> new.handedness,
          spread |-> new.spread,
          pinch_strength |-> new.pinch_strength,
          style |-> new.style]
    ELSE [gesture |-> next_label,
          confidence |-> Ema(s[1].confidence, new.confidence, a),
          hue |-> Ema(s[1].hue, new.hue, a),
          launch_power |-> Ema(s[1].launch_power, new.launch_power, a),
          spark_density |-> Ema(s[1].spark_density, new.spark_density, a),
          twist |-> Ema(s[1].twist, new.twist, a),
          center |-> <<Ema(s[1].center[1], new.center[1], a),
                       Ema(s[1].center[2], new.center[2], a)>>,
          handedness |-> new.handedness,
          spread |-> Ema(s[1].spread, new.spread, a),
          pinch_strength |-> Ema(s[1].pinch_strength, new.pinch_strength, a),
          style |-> new.style]

\* GestureSmoother.__init__
SmootherInit(w, msc, mc, ema) ==
    /\ window = Max(3, w)
    /\ min_switch = Max(2, msc)
    /\ min_conf = mc
    /\ alpha = ema
    /\ history = <<>>
    /\ current_label = None
    /\ smoothed = <<>>

GhostInit ==
    /\ last_new = <<>>
    /\ prev_label = None
    /\ prev_history = <<>>
    /\ seen = {}
    /\ run_len = 0
    /\ run_from = None

\* What the ghost variables record of one call update(new).
GhostUpdate(new) ==
    /\ last_new' = <<new>>
    /\ prev_label' = current_label
    /\ prev_history' = history
    /\ seen' = seen \cup {new.gesture}
    /\ IF new.confidence >= min_conf
       THEN IF run_len > 0 /\ last_new[1].gesture = new.gesture
            THEN run_len' = Min(run_len + 1, MaxRun) /\ run_from' = run_from
            ELSE run_len' = 1 /\ run_from' = current_label
       ELSE run_len' = 0 /\ run_from' = None

\* GestureSmoother.update(new)
Update(new) ==
    /\ history' = Admit(history, new, window, min_conf)
    /\ current_label' = NextLabel(current_label, history', new, min_switch, min_conf)
    /\ smoothed' = <<Smooth(smoothed, new, current_label', alpha)>>
    /\ UNCHANGED <<window, min_switch, min_conf, alpha>>
    /\ GhostUpdate(new)

(***************************************************************************)
(* A smoother fed directly.  The observations are those the tasks backend  *)
(* of run_detection builds: any label with any score, the remaining fields *)
(* fixed.                                                                  *)
(***************************************************************************)

Labels == {"idle", "fist", "open_palm"}

\* Scores on both sides of the admission threshold.
Confidences == {DefaultMinConf - 1, DefaultMinConf}

\* The GestureResult the tasks backend passes to update.
TaskResult(label, score) ==
    [gesture |-> label,
     confidence |-> score,
     hue |-> 21000,
     launch_power |-> 35,
     spark_density |-> 40,
     twist |-> 0,
     center |-> <<50, 60>>,
     handedness |-> "unknown",
     spread |-> 0,
     pinch_strength |-> 0,
     style |-> "embers"]

Observations == {TaskResult(g, c) : g \in Labels, c \in Confidences}

\* run_detection before its first frame: last_presence and last_emit are 0.0
\* and now is the wall clock, so both differences are beyond every threshold.
LoopInit ==
    /\ hand = FALSE
    /\ presence_age = AgeCap
    /\ emit_age = EmitAgeCap
    /\ payload = <<>>

\* --ws-rate of gesture_detection.py
WsRate == 20

\* main before it runs the event loop: the queue is empty, the detection
\* thread is started, no stop is requested.  v is the script, rate its
\* --ws-rate in hundredths.
BridgeInit(v, rate) ==
    /\ variant = v
    /\ ws_rate = rate
    /\ steps = 0
    /\ emit_gap = EmitAgeCap
    /\ stop_event = FALSE
    /\ prod = "head"
    /\ ready = <<>>
    /\ queue = <<>>
    /\ enqueued = <<>>
    /\ last_put = <<>>
    /\ main = "check"
    /\ held = <<>>
    /\ sent = <<>>
    /\ server_open = TRUE

\* No call of a pure function under way.
NoCall == [fn |-> "none"]

\* No update entered yet.
EntryInit ==
    /\ prev_smoothed = <<>>
    /\ prev_new = <<>>

\* --ws-path of both scripts
DefaultWsPath == "/fireworks"

\* The websockets that may connect.
Sockets == {1, 2}

\* MJPEGStream.__init__ and the first lines of frames(): r is _response, held
\* when open() was called before frames(), as __enter__ does.
StreamInit(r) ==
    /\ response = r
    /\ open_count = (IF r = "none" THEN 0 ELSE 1)
    /\ buffer = <<>>
    /\ spc = "start"
    /\ cut = <<>>
    /\ appended = <<>>

\* No stream read.
NoStream == StreamInit("none")

\* WebSocketHub.__init__, with the configured path p.
HubInit(p) ==
    /\ ws_path = p
    /\ clients = <<>>
    /\ conn = [w \in Sockets |-> "new"]
    /\ inbox = [w \in Sockets |-> <<>>]
    /\ mismatch = {}
    /\ casting = <<>>
    /\ last_cast = <<>>

\* A hub no client connects to.
NoHub == HubInit(DefaultWsPath)

Init ==
    /\ SmootherInit(DefaultWindow, DefaultMinSwitch, DefaultMinConf, DefaultEma)
    /\ GhostInit
    /\ LoopInit
    /\ BridgeInit("gesture", WsRate * 100)
    /\ call = NoCall
    /\ EntryInit
    /\ NoStream
    /\ NoHub

Next ==
    \E new \in Observations :
        Update(new) /\ UNCHANGED <<pipeline, steps, bridge, call, entry, stream, hub>>

Spec == Init /\ [][Next]_vars

(***************************************************************************)
(* Smoothers built from other constructor arguments: windows and switch    *)
(* counts below the floors of __init__, and switch counts above the        *)
(* window.                                                                 *)
(***************************************************************************)

\* The arguments window and min_switch_count.
WindowArgs == {1, 3, 4}
MinSwitchArgs == {0, 2, 4, 5, 6}

CtorInit ==
    /\ \E w \in WindowArgs, msc \in MinSwitchArgs :
          SmootherInit(w, msc, DefaultMinConf, DefaultEma)
    /\ GhostInit
    /\ LoopInit
    /\ BridgeInit("gesture", WsRate * 100)
    /\ call = NoCall
    /\ EntryInit
    /\ NoStream
    /\ NoHub

CtorSpec == CtorInit /\ [][Next]_vars

(***************************************************************************)
(* A smoother fed observations whose confidence and center take the ends   *)
(* of [0, 1] and values inside it, under several values of ema_alpha.      *)
(***************************************************************************)

\* Number of calls of update.
MaxUpdates == 4

\* ema_alpha: 0, the default, a third and 1.
Alphas == {0, DefaultEma, 33, 100}

\* A GestureResult with the given confidence and center, the remaining
\* fields those the tasks backend sets.
RangeResult(score, center) == [TaskResult("fist", score) EXCEPT !.center = center]

RangeObservations ==
    {RangeResult(c, p) : c \in {0, 37, 100},
                         p \in {<<0, 100>>, <<100, 0>>, <<33, 66>>}}

\* Two results of classify that differ in every field: a fist at the top
\* right (tip_spread 2.0, no pinch, twist -0.8) and an open palm at the
\* lower left (tip_spread 0, pinch 0.4, twist 0.8).
FieldObservations ==
    {[gesture |-> "fist", confidence |-> 95, hue |-> 2000, launch_power |-> 98,
      spark_density |-> 140, twist |-> -80, center |-> <<100, 0>>,
      handedness |-> "left", spread |-> 200, pinch_strength |-> 0,
      style |-> "meteor"],
     [gesture |-> "open_palm", confidence |-> 70, hue |-> 7200,
      launch_power |-> 20, spark_density |-> 30, twist |-> 80,
      center |-> <<20, 80>>, handedness |-> "right", spread |-> 0,
      pinch_strength |-> 40, style |-> "nebula"]}

EmaInit ==
    /\ \E a \in Alphas :
          SmootherInit(DefaultWindow, DefaultMinSwitch, DefaultMinConf, a)
    /\ GhostInit
    /\ LoopInit
    /\ BridgeInit("gesture", WsRate * 100)
    /\ call = NoCall
    /\ EntryInit
    /\ NoStream
    /\ NoHub

EmaNext ==
    \E new \in RangeObservations \cup FieldObservations :
        /\ steps < MaxUpdates
        /\ Update(new)
        /\ steps' = steps + 1
        /\ prev_smoothed' = smoothed
        /\ prev_new' = last_new
        /\ UNCHANGED <<pipeline, bridge, call, stream, hub>>

EmaSpec == EmaInit /\ [][EmaNext]_vars

(***************************************************************************)
(* GestureClassifier: the part of it the detection loop of the rules       *)
(* backend needs.                                                          *)
(***************************************************************************)

clamp(value, min_value, max_value) == Max(min_value, Min(value, max_value))

\* GestureClassifier._style_map, with the default of the .get in classify.
StyleOf(g) ==
    CASE g \in {"open_palm", "stop", "five"} -> "nebula"
      [] g \in {"four", "thumbs_up", "shaka", "call"} -> "aurora"
      [] g \in {"three", "three2", "peace", "victory", "two_up_inverted"} -> "galaxy"
      [] g \in {"fist", "thumbs_down", "rock"} -> "meteor"
      [] g \in {"pinch", "ok"} -> "stardust"
      [] g \in {"point", "pistol"} -> "comet"
      [] g = "idle" -> "embers"
      [] OTHER -> "spark"

\* The keys of GestureClassifier._style_map.
StyleKeys ==
    {"open_palm", "stop", "five", "four", "three", "three2", "fist", "peace",
     "victory", "two_up_inverted", "pinch", "ok", "thumbs_up", "thumbs_down",
     "point", "pistol", "rock", "shaka", "call", "mixed", "idle"}

\* GestureClassifier.idle()
Idle ==
    [gesture |-> "idle",
     confidence |-> 20,
     hue |-> 21000,
     launch_power |-> 35,
     spark_density |-> 20,
     twist |-> 0,
     center |-> <<50, 60>>,
     handedness |-> "unknown",
     spread |-> 10,
     pinch_strength |-> 0,
     style |-> StyleOf("idle")]

\* GestureClassifier._resolve_hue
ResolveHue(gesture, center) ==
    CASE gesture = "fist" -> 2000 + center[2] * 10
      [] gesture = "peace" -> 30000 + (100 - center[2]) * 40
      [] gesture = "thumbs_up" -> 9000 + center[2] * 60
      [] gesture = "pinch" -> 21000 + center[1] * 120
      [] gesture = "point" -> 4500 + center[1] * 80
      [] OTHER -> center[1] * 360

\* The end of GestureClassifier.classify: the GestureResult built from the
\* gesture and confidence the rule chain chose and from the measured features.
ClassifyResult(gesture, confidence, center, tip_spread, pinch_strength, twist, handedness) ==
    [gesture |-> gesture,
     confidence |-> confidence,
     hue |-> ResolveHue(gesture, center),
     launch_power |-> clamp(100 - center[2], 10, 98),
     spark_density |-> IF gesture = "fist"
                       THEN clamp(140 + (pinch_strength * 30) \div 100, 100, 190)
                       ELSE clamp(30 + (tip_spread * 90) \div 100, 10, 160),
     twist |-> twist,
     center |-> center,
     handedness |-> handedness,
     spread |-> tip_spread,
     pinch_strength |-> pinch_strength,
     style |-> StyleOf(gesture)]

(***************************************************************************)
(* run_detection, rules backend: one step per frame of stream.frames().    *)
(***************************************************************************)

\* Time between two frames, in hundredths of a second.
FrameDts == {4, 40}

\* What classify returns in the frames that show a hand: a pinch (rule
\* "pinch", 0.92) held at the left edge, where _resolve_hue and launch_power
\* give the hue and the launch power of the idle record.
HandResults ==
    {ClassifyResult("pinch", 92, <<0, 65>>, 10, 73, 0, "right")}

\* Seconds without a hand after which the idle record has its full confidence.
PresenceTimeout == 75

\* GestureResult.to_payload: round(x, 3), and round(hue, 2), keep a value
\* given in hundredths as it is.  The timestamp is the wall clock.
ToPayload(r) ==
    [type |-> "gesture",
     gesture |-> r.gesture,
     confidence |-> r.confidence,
     hue |-> r.hue,
     launch_power |-> r.launch_power,
     spark_density |-> r.spark_density,
     twist |-> r.twist,
     handedness |-> r.handedness,
     center |-> [x |-> r.center[1], y |-> r.center[2]],
     spread |-> r.spread,
     pinch_strength |-> r.pinch_strength,
     style |-> r.style]

\* now - last_emit >= 1.0 / max(args.ws_rate, 1), with ea = now - last_emit in
\* hundredths of a second and the rate in hundredths: both sides are
\* multiplied by the positive divisor, so nothing is rounded.
Due(ea, rate) == ea * Max(rate, 100) >= 10000

\* The rate-limited emission at the end of the loop body: ea is now - last_emit.
Emit(ea) ==
    IF Due(ea, ws_rate)
    THEN payload' = <<ToPayload(smoothed'[1])>> /\ emit_age' = 0
    ELSE payload' = payload /\ emit_age' = ea

\* The record the loop substitutes in a frame without a hand: pa is
\* now - last_presence.
IdleResult(pa) ==
    IF pa > PresenceTimeout THEN Idle ELSE [Idle EXCEPT !.confidence = 5]

\* A frame in which MediaPipe Hands finds a hand.
HandFrame(dt, raw_result) ==
    /\ Update(raw_result)
    /\ hand' = TRUE
    /\ presence_age' = 0
    /\ Emit(Min(emit_age + dt, EmitAgeCap))

\* A frame in which it finds none.
NoHandFrame(dt) ==
    /\ Update(IdleResult(Min(presence_age + dt, AgeCap)))
    /\ hand' = FALSE
    /\ presence_age' = Min(presence_age + dt, AgeCap)
    /\ Emit(Min(emit_age + dt, EmitAgeCap))

LoopNext ==
    \/ \E dt \in FrameDts, raw_result \in HandResults :
          HandFrame(dt, raw_result) /\ UNCHANGED <<ws_rate, steps, bridge, call, entry, stream, hub>>
    \/ \E dt \in FrameDts :
          NoHandFrame(dt) /\ UNCHANGED <<ws_rate, steps, bridge, call, entry, stream, hub>>

LoopSpec == Init /\ [][LoopNext]_vars

\* stream.frames() never ends and the loop body never blocks: frames keep
\* being processed.
FairLoopSpec == LoopSpec /\ WF_vars(LoopNext)

(***************************************************************************)
(* GestureClassifier.classify.  A hand is what classify derives from the   *)
(* 21 landmarks before its rule chain: the five finger states, the         *)
(* clamped pinch_strength, tip_spread and twist, the two distances of the  *)
(* rock rule divided by palm_reference, the heights of thumb tip, thumb    *)
(* MCP and wrist, the palm centroid and the handedness.                    *)
(***************************************************************************)

Abs(x) == IF x >= 0 THEN x ELSE -x

\* int(b)
BoolInt(b) == IF b THEN 1 ELSE 0

\* Mutant of SpreadConfidence: the sum without its clamp.
SpreadConfidenceUnclamped(base, tip_spread) == base + (tip_spread * 40) \div 100

\* clamp(base + tip_spread * 0.4, 0.0, 1.0)
SpreadConfidence(base, tip_spread) ==
    clamp(base + (tip_spread * 40) \div 100, 0, 100)

\* _is_thumb_up
IsThumbUp(h) ==
    /\ h.thumb /\ ~h.index /\ ~h.middle /\ ~h.ring /\ ~h.pinky
    /\ h.thumb_tip_y < h.thumb_mcp_y
    /\ h.thumb_tip_y < h.wrist_y

\* The rule chain of classify, in its order: <<condition, gesture,
\* confidence>> for each branch of the if/elif chain; the two branches under
\* pinch_strength > 0.72 are two rules.
Rules(h) ==
    LET thumb == h.thumb
        index == h.index
        middle == h.middle
        ring == h.ring
        pinky == h.pinky
        finger_count == BoolInt(thumb) + BoolInt(index) + BoolInt(middle) + BoolInt(ring) + BoolInt(pinky)
    IN  << <<h.pinch_strength > 72 /\ BoolInt(middle) + BoolInt(ring) + BoolInt(pinky) >= 2,
             "ok", 93>>,
           <<h.pinch_strength > 72, "pinch", 92>>,
           <<index /\ middle /\ ring /\ pinky /\ ~thumb,
             "four", SpreadConfidence(72, h.tip_spread)>>,
           <<index /\ middle /\ ring /\ pinky /\ thumb,
             "five", SpreadConfidence(72, h.tip_spread)>>,
           <<finger_count >= 4 /\ h.pinch_strength < 50,
             "open_palm", SpreadConfidence(70, h.tip_spread)>>,
           <<finger_count = 0 /\ h.pinch_strength < 30, "fist", 95>>,
           <<index /\ middle /\ ~ring /\ ~pinky /\ Abs(h.twist) > 25,
             "victory", 86>>,
           <<index /\ middle /\ ~ring /\ ~pinky, "peace", 85>>,
           <<\/ index /\ ~middle /\ ~ring /\ pinky
             \/ /\ ~middle /\ ~ring
                /\ h.index_reach > 35
                /\ h.pinky_reach > 32,
             "rock", 86>>,
           <<thumb /\ ~index /\ ~middle /\ ~ring /\ pinky /\ Abs(h.twist) > 25,
             "call", 86>>,
           <<thumb /\ ~index /\ ~middle /\ ~ring /\ pinky, "shaka", 86>>,
           <<thumb /\ index /\ ~middle /\ ~ring /\ ~pinky, "pistol", 84>>,
           <<index /\ middle /\ ring /\ ~pinky /\ ~thumb, "three", 82>>,
           <<index /\ middle /\ ~ring /\ ~pinky /\ thumb, "two_up_inverted", 82>>,
           <<middle /\ ring /\ pinky /\ ~index /\ ~thumb, "three2", 80>>,
           <<finger_count = 1 /\ index, "point", 78>>,
           <<IsThumbUp(h), "thumbs_up", 82>>,
           <<thumb /\ h.thumb_tip_y > h.wrist_y + 5
                   /\ ~index /\ ~middle /\ ~ring /\ ~pinky,
             "thumbs_down", 82>> >>

\* The index of the branch the chain takes: the first rule whose condition
\* holds, 0 when none does.
FirstMatch(h) ==
    LET rules == Rules(h)
        matching == {i \in 1..Len(rules) : rules[i][1]}
    IN  IF matching = {} THEN 0
        ELSE CHOOSE i \in matching : \A j \in matching : i <= j

\* GestureClassifier.classify; lower is handedness.lower().
classify(h) ==
    LET i == FirstMatch(h)
        gesture == IF i = 0 THEN "mixed" ELSE Rules(h)[i][2]
        confidence == IF i = 0 THEN 60 ELSE Rules(h)[i][3]
        center == <<clamp(h.centroid[1], 0, 100), clamp(h.centroid[2], 0, 100)>>
        lower == CASE h.handedness = "Left" -> "left"
                   [] h.handedness = "Right" -> "right"
                   [] OTHER -> h.handedness
    IN  ClassifyResult(gesture, confidence, center, h.tip_spread,
                       h.pinch_strength, h.twist, lower)

(***************************************************************************)
(* facial_expression_recognition.py: classify_expression and               *)
(* ExpressionMapper.  A face is what classify_expression derives from the  *)
(* landmarks before its rules: four ratios to the face width in            *)
(* hundredths, and the mouth angle in hundredths of a radian.              *)
(***************************************************************************)

\* The keys of the dict scores, in its insertion order.
ScoreOrder == <<"surprised", "happy", "angry", "sad", "neutral">>

\* scores after the four rules, before the neutral penalty.
RuleScores(f) ==
    [surprised |->
        IF f.mouth_height > 22 /\ f.eye_open > 11
        THEN Min(100, (f.mouth_height - 20) * 8 + (f.eye_open - 10) * 8)
        ELSE 0,
     happy |->
        IF f.mouth_width > 42 /\ f.mouth_height > 10 /\ f.mouth_angle > -5
        THEN Min(100, (f.mouth_width - 40) * 4 + Max(0, f.mouth_angle) * 2
                      + Max(0, f.mouth_height - 10) * 4)
        ELSE 0,
     angry |->
        IF f.brow_gap < 8 /\ f.eye_open < 9
        THEN Min(100, (10 - f.brow_gap) * 10 + (10 - f.eye_open) * 8)
        ELSE 0,
     sad |->
        IF f.mouth_angle < -8 /\ f.mouth_height < 12
        THEN Min(100, (-f.mouth_angle - 5) * 4 + Max(0, 12 - f.mouth_height) * 4)
        ELSE 0,
     neutral |-> 50]

\* max(scores.values())
MaxScore(scores) ==
    CHOOSE v \in {scores[k] : k \in DOMAIN scores} :
        \A k \in DOMAIN scores : scores[k] <= v

\* scores once scores["neutral"] is lowered by the penalty.
Scores(f) ==
    LET scores == RuleScores(f)
        neutral_penalty == (MaxScore(scores) * 60) \div 100
    IN  [scores EXCEPT !.neutral = Max(0, scores.neutral - neutral_penalty)]

\* classify_expression: max(scores.items(), key=...) is the first item, in
\* the order of the dict, whose score is the highest.
classify_expression(f) ==
    LET scores == Scores(f)
        best == CHOOSE i \in 1..Len(ScoreOrder) :
                    /\ scores[ScoreOrder[i]] = MaxScore(scores)
                    /\ \A j \in 1..(i - 1) : scores[ScoreOrder[j]] < MaxScore(scores)
    IN  [label |-> ScoreOrder[best],
         confidence |-> Min(100, scores[ScoreOrder[best]])]

\* ExpressionMapper.style_map
style_map ==
    [happy |-> "nebula", surprised |-> "galaxy", angry |-> "meteor",
     sad |-> "stardust", neutral |-> "embers", unknown |-> "embers"]

\* ExpressionMapper.base_hue
base_hue ==
    [happy |-> 5000, surprised |-> 20000, angry |-> 0,
     sad |-> 22000, neutral |-> 18000, unknown |-> 18000]

\* Mutant of MapLabel: labels outside the table are mapped as "sad".
MapLabelSad(label) == IF label \in DOMAIN style_map THEN label ELSE "sad"

\* Mutant of MapLabel: labels outside the table are mapped as "angry".
MapLabelAngry(label) == IF label \in DOMAIN style_map THEN label ELSE "angry"

\* label if label in self.style_map else "neutral"
MapLabel(label) == IF label \in DOMAIN style_map THEN label ELSE "neutral"

\* Mutant of Modulate: the density without the confidence.
ModulateNot(density, confidence) == clamp(density, 20, 190)

\* clamp(density * (0.7 + 0.6 * confidence), 0.2, 1.9)
Modulate(density, confidence) ==
    clamp((density * (7000 + 60 * confidence)) \div 10000, 20, 190)

\* ExpressionMapper.map
map(label0, center, confidence) ==
    LET label == MapLabel(label0)
        density == CASE label = "happy" -> 140
                     [] label = "surprised" -> 160
                     [] label = "angry" -> 120
                     [] label = "sad" -> 60
                     [] OTHER -> 80
        twist == CASE label = "happy" -> 15
                   [] label = "surprised" -> 25
                   [] label = "angry" -> -20
                   [] label = "sad" -> -10
                   [] OTHER -> 0
    IN  [hue |-> (base_hue[label] + center[1] * 120) % 36000,
         launch_power |-> clamp(100 - center[2], 15, 95),
         spark_density |-> Modulate(density, confidence),
         twist |-> twist,
         style |-> style_map[label]]

(***************************************************************************)
(* The three functions applied to one argument each.                       *)
(***************************************************************************)

PinchStrengths == {29, 30, 49, 50, 72, 73}
TipSpreads == {0, 70, 200}
Twists == {-26, 25, 26}
\* distance(index_tip, middle_mcp) and distance(pinky_tip, middle_mcp), in
\* hundredths of palm_reference.
Reaches == {<<35, 33>>, <<36, 32>>, <<36, 33>>}
\* Heights of the thumb tip, with the thumb MCP at 0.50 and the wrist at 0.60.
ThumbTipYs == {30, 55, 70}
\* Palm centroids: inside the image, on its right edge and beyond it.
Centroids == {<<50, 60>>, <<100, 0>>, <<105, 100>>}

Hands ==
    [thumb : BOOLEAN, index : BOOLEAN, middle : BOOLEAN, ring : BOOLEAN,
     pinky : BOOLEAN, pinch_strength : PinchStrengths, tip_spread : TipSpreads,
     twist : Twists, reach : Reaches, thumb_tip_y : ThumbTipYs,
     centroid : Centroids]

\* The hand of one combination of Hands.
HandOf(c) ==
    [thumb |-> c.thumb, index |-> c.index, middle |-> c.middle,
     ring |-> c.ring, pinky |-> c.pinky,
     pinch_strength |-> c.pinch_strength, tip_spread |-> c.tip_spread,
     twist |-> c.twist, index_reach |-> c.reach[1], pinky_reach |-> c.reach[2],
     thumb_tip_y |-> c.thumb_tip_y, thumb_mcp_y |-> 50, wrist_y |-> 60,
     centroid |-> c.centroid, handedness |-> "Right"]

Faces ==
    [mouth_width : {40, 43, 60}, mouth_height : {5, 11, 23, 40},
     eye_open : {5, 10, 12, 30}, brow_gap : {2, 8},
     mouth_angle : {-30, -9, -6, 0, 30}]

\* Labels passed to map: those of its tables and two it does not have.
MapLabels == DOMAIN style_map \cup {"fist", "idle"}

MapArgs ==
    [label : MapLabels, center : {0, 50, 100} \X {0, 50, 100},
     confidence : {0, 50, 100}]

\* The calls, before they are made: out is <<>>.
PureCalls ==
    {[fn |-> "classify", arg |-> HandOf(c), out |-> <<>>] : c \in Hands}
    \cup {[fn |-> "classify_expression", arg |-> f, out |-> <<>>] : f \in Faces}
    \cup {[fn |-> "map", arg |-> a, out |-> <<>>] : a \in MapArgs}

PureInit ==
    /\ SmootherInit(DefaultWindow, DefaultMinSwitch, DefaultMinConf, DefaultEma)
    /\ GhostInit
    /\ LoopInit
    /\ BridgeInit("gesture", WsRate * 100)
    /\ call \in PureCalls
    /\ EntryInit
    /\ NoStream
    /\ NoHub

Pending(fn) == call.fn = fn /\ call.out = <<>>

ApplyClassify ==
    /\ Pending("classify")
    /\ call' = [call EXCEPT !.out = <<classify(call.arg)>>]
    /\ UNCHANGED <<smoother, ghost, pipeline, steps, bridge, entry, stream, hub>>

ApplyClassifyExpression ==
    /\ Pending("classify_expression")
    /\ call' = [call EXCEPT !.out = <<classify_expression(call.arg)>>]
    /\ UNCHANGED <<smoother, ghost, pipeline, steps, bridge, entry, stream, hub>>

ApplyMap ==
    /\ Pending("map")
    /\ call' = [call EXCEPT !.out =
                   <<map(call.arg.label, call.arg.center, call.arg.confidence)>>]
    /\ UNCHANGED <<smoother, ghost, pipeline, steps, bridge, entry, stream, hub>>

PureNext == ApplyClassify \/ ApplyClassifyExpression \/ ApplyMap

PureSpec == PureInit /\ [][PureNext]_vars

(***************************************************************************)
(* The bridge of both scripts: the detection thread (run_detection)        *)
(* hands payloads to enqueue_payload, which schedules _put on the event    *)
(* loop of the main thread; there websocket_main takes them off the queue  *)
(* and broadcasts them.  The callbacks and the coroutine of the event loop *)
(* run one at a time, each up to its next await.                           *)
(***************************************************************************)

\* Number of frames the loop body processes; the frame at which the loop
\* finds the stop event set is not counted.
MaxFrames == 4

\* asyncio.Queue(maxsize=4)
QueueMax == 4

\* --ws-rate of facial_expression_recognition.py
ExprWsRate == 15

\* The script and its --ws-rate in hundredths: each script at its default,
\* the gesture script also at one record in two seconds.
Configurations ==
    {<<"gesture", WsRate * 100>>, <<"gesture", 50>>,
     <<"expression", ExprWsRate * 100>>}

\* The sentinel run_detection enqueues when it ends.
Shutdown == [type |-> "shutdown"]

\* A payload with its timestamp: t is the number of the frame, which grows
\* as time.time() does.
Item(p, t) == [type |-> p.type, timestamp |-> t, body |-> p]

\* What the face mesh finds in a frame: nothing, or a face.
MeshResults ==
    {<<>>,
     <<[mouth_width |-> 60, mouth_height |-> 11, eye_open |-> 10,
        brow_gap |-> 8, mouth_angle |-> 30]>>}

\* Centers of the detected face; (0.5, 0.6) is also the default without one.
FaceCenters == {<<50, 60>>}

\* The payload the expression loop builds (lines 367-378), without its
\* timestamp.
ExprPayload(label, confidence, m, center) ==
    [type |-> "gesture",
     gesture |-> label,
     confidence |-> confidence,
     hue |-> m.hue,
     launch_power |-> m.launch_power,
     spark_density |-> m.spark_density,
     twist |-> m.twist,
     center |-> [x |-> center[1], y |-> center[2]],
     style |-> m.style]

\* The event loop runs callbacks while run_until_complete(websocket_main)
\* is under way.
LoopRunning == main \in {"check", "get", "broadcast", "closing"}

\* main has called loop.close().
LoopClosed == main = "closed"

\* enqueue_payload raises: asyncio.run_coroutine_threadsafe on a closed loop
\* raises RuntimeError, and only the gesture script catches what
\* call_soon_threadsafe raises.
EnqueueRaises == variant = "expression" /\ LoopClosed

\* enqueue_payload(loop, queue, item) when it does not raise: _put is
\* scheduled, unless the loop is closed.
Schedule(item) ==
    IF LoopClosed
    THEN UNCHANGED <<ready, enqueued>>
    ELSE ready' = Append(ready, item) /\ enqueued' = Append(enqueued, item)

BridgeSpecInit ==
    /\ SmootherInit(DefaultWindow, DefaultMinSwitch, DefaultMinConf, DefaultEma)
    /\ GhostInit
    /\ LoopInit
    /\ \E c \in Configurations : BridgeInit(c[1], c[2])
    /\ call = NoCall
    /\ EntryInit
    /\ NoStream
    /\ NoHub

\* The for statement: the stream delivers a frame, and the loop leaves if
\* the stop event is set.
TakeFrame ==
    /\ prod = "head"
    /\ IF stop_event
       THEN prod' = "finally" /\ steps' = steps
       ELSE steps < MaxFrames /\ prod' = "body" /\ steps' = steps + 1
    /\ UNCHANGED <<smoother, ghost, pipeline, variant, emit_gap, stop_event,
                   ready, enqueued, queue, last_put, main, held, sent,
                   server_open, call, entry, stream, hub>>

\* The emission of the gesture loop body, after the frame's update.
GestureEmission(dt) ==
    LET ea == Min(emit_age + dt, EmitAgeCap)
    IN  IF Due(ea, ws_rate)
        THEN emit_gap' = ea /\ Schedule(Item(payload'[1], steps))
        ELSE UNCHANGED <<emit_gap, ready, enqueued>>

\* The loop body of gesture_detection.py on one frame.
GestureBody ==
    /\ variant = "gesture"
    /\ prod = "body"
    /\ \E dt \in FrameDts :
          /\ \/ \E raw_result \in HandResults : HandFrame(dt, raw_result)
             \/ NoHandFrame(dt)
          /\ GestureEmission(dt)
    /\ prod' = "head"
    /\ UNCHANGED <<ws_rate, steps, variant, stop_event, queue, last_put, main,
                   held, sent, server_open, call, entry, stream, hub>>

\* The loop body of facial_expression_recognition.py on one frame: no
\* smoother takes part.  An enqueue_payload that raises leaves the loop
\* through except Exception.
ExprBody ==
    /\ variant = "expression"
    /\ prod = "body"
    /\ \E dt \in FrameDts, center \in FaceCenters, mesh \in MeshResults :
          LET r == IF mesh = <<>>
                   THEN [label |-> "neutral", confidence |-> 0]
                   ELSE classify_expression(mesh[1])
              m == map(r.label, center, r.confidence)
              ea == Min(emit_age + dt, EmitAgeCap)
          IN  IF Due(ea, ws_rate)
              THEN /\ payload' = <<ExprPayload(r.label, r.confidence, m, center)>>
                   /\ IF EnqueueRaises
                      THEN /\ prod' = "finally"
                           /\ emit_age' = ea
                           /\ UNCHANGED <<emit_gap, ready, enqueued>>
                      ELSE /\ prod' = "head"
                           /\ emit_age' = 0
                           /\ emit_gap' = ea
                           /\ Schedule(Item(payload'[1], steps))
              ELSE /\ prod' = "head"
                   /\ emit_age' = ea
                   /\ UNCHANGED <<payload, emit_gap, ready, enqueued>>
    /\ UNCHANGED <<smoother, ghost, hand, presence_age, ws_rate, steps, variant,
                   stop_event, queue, last_put, main, held, sent, server_open,
                   call, entry, stream, hub>>

\* --display: the key q sets the stop event and leaves the loop before the
\* emission.
Quit ==
    /\ prod = "body"
    /\ stop_event' = TRUE
    /\ prod' = "finally"
    /\ UNCHANGED <<smoother, ghost, pipeline, steps, variant, emit_gap, ready, enqueued,
                   queue, last_put, main, held, sent, server_open, call, entry, stream, hub>>

\* A call of the loop body raises: except Exception logs it.
Crash ==
    /\ prod = "body"
    /\ prod' = "finally"
    /\ UNCHANGED <<smoother, ghost, pipeline, steps, variant, emit_gap,
                   stop_event, ready, enqueued, queue, last_put, main, held, sent,
                   server_open, call, entry, stream, hub>>

\* finally: stop_event.set()
FinallySetStop ==
    /\ prod = "finally"
    /\ stop_event' = TRUE
    /\ prod' = "shutdown"
    /\ UNCHANGED <<smoother, ghost, pipeline, steps, variant, emit_gap, ready, enqueued,
                   queue, last_put, main, held, sent, server_open, call, entry, stream, hub>>

\* Mutant of FinallyEnqueue: run_detection returns without the sentinel.
FinallyReturn ==
    /\ prod = "shutdown"
    /\ prod' = "returned"
    /\ UNCHANGED <<smoother, ghost, pipeline, steps, variant, emit_gap,
                   stop_event, ready, enqueued, queue, last_put, main, held, sent,
                   server_open, call, entry, stream, hub>>

\* Mutant of FinallyEnqueue: the sentinel is enqueued and the loop is entered
\* again.
FinallyEnqueueAndGoOn ==
    /\ prod = "shutdown"
    /\ payload' = <<Shutdown>>
    /\ prod' = "head"
    /\ Schedule(Shutdown)
    /\ UNCHANGED <<smoother, ghost, hand, presence_age, emit_age, ws_rate,
                   steps, variant, emit_gap, stop_event, queue, last_put, main,
                   held, sent, server_open, call, entry, stream, hub>>

\* finally: enqueue_payload(loop, queue, {"type": "shutdown"})
FinallyEnqueue ==
    /\ prod = "shutdown"
    /\ payload' = <<Shutdown>>
    /\ IF EnqueueRaises
       THEN prod' = "raised" /\ UNCHANGED <<ready, enqueued>>
       ELSE prod' = "returned" /\ Schedule(Shutdown)
    /\ UNCHANGED <<smoother, ghost, hand, presence_age, emit_age, ws_rate,
                   steps, variant, emit_gap, stop_event, queue, last_put, main,
                   held, sent, server_open, call, entry, stream, hub>>

\* Mutant of Put: the item is put in front of the queue.
PutAtHead(q, item) ==
    IF Len(q) >= QueueMax THEN <<item>> \o Tail(q) ELSE <<item>> \o q

\* The body of _put: a full queue loses its oldest item, then the item is
\* put at the end.
Put(q, item) ==
    IF Len(q) >= QueueMax THEN Append(Tail(q), item) ELSE Append(q, item)

\* The event loop runs the oldest scheduled _put.
RunPut ==
    /\ LoopRunning
    /\ ready # <<>>
    /\ queue' = Put(queue, Head(ready))
    /\ ready' = Tail(ready)
    /\ enqueued' = enqueued
    /\ last_put' = <<[before |-> queue, item |-> Head(ready), after |-> queue']>>
    /\ UNCHANGED <<smoother, ghost, pipeline, steps, variant, emit_gap,
                   stop_event, prod, main, held, sent, server_open, call, entry, stream, hub>>

\* queue.get() returns an item; the sentinel leaves the loop.
Take ==
    /\ held' = <<Head(queue)>>
    /\ queue' = Tail(queue)
    /\ main' = IF Head(queue).type = "shutdown" THEN "closing" ELSE "broadcast"

\* while not stop_event.is_set(): payload = await queue.get().  With an
\* item in the queue get returns at once, with none the coroutine waits.
ConsumerCheck ==
    /\ main = "check"
    /\ IF stop_event
       THEN main' = "closing" /\ UNCHANGED <<held, queue>>
       ELSE IF queue = <<>>
            THEN main' = "get" /\ UNCHANGED <<held, queue>>
            ELSE Take
    /\ UNCHANGED <<smoother, ghost, pipeline, steps, variant, emit_gap,
                   stop_event, prod, ready, enqueued, last_put, sent, server_open, call, entry, stream, hub>>

\* The waiting queue.get() returns once the queue has an item.
ConsumerGet ==
    /\ main = "get"
    /\ queue # <<>>
    /\ Take
    /\ UNCHANGED <<smoother, ghost, pipeline, steps, variant, emit_gap,
                   stop_event, prod, ready, enqueued, last_put, sent, server_open, call, entry, stream, hub>>

\* await hub.broadcast(json.dumps(payload))
Broadcast ==
    /\ main = "broadcast"
    /\ sent' = Append(sent, held[1])
    /\ main' = "check"
    /\ UNCHANGED <<smoother, ghost, pipeline, steps, variant, emit_gap,
                   stop_event, prod, ready, enqueued, queue, last_put, held, server_open,
                   call, entry, stream, hub>>

\* finally: server.close(); await server.wait_closed()
CloseServer ==
    /\ main = "closing"
    /\ server_open' = FALSE
    /\ main' = "stopping"
    /\ UNCHANGED <<smoother, ghost, pipeline, steps, variant, emit_gap,
                   stop_event, prod, ready, enqueued, queue, last_put, held, sent, call, entry, stream, hub>>

\* SIGINT or SIGTERM: the event loop calls stop_event.set.
Signal ==
    /\ LoopRunning
    /\ ~stop_event
    /\ stop_event' = TRUE
    /\ UNCHANGED <<smoother, ghost, pipeline, steps, variant, emit_gap, prod,
                   ready, enqueued, queue, last_put, main, held, sent, server_open, call, entry, stream, hub>>

\* main, finally: stop_event.set()
MainStop ==
    /\ main = "stopping"
    /\ stop_event' = TRUE
    /\ main' = "join"
    /\ UNCHANGED <<smoother, ghost, pipeline, steps, variant, emit_gap, prod,
                   ready, enqueued, queue, last_put, held, sent, server_open, call, entry, stream, hub>>

\* main, finally: detection_thread.join(timeout=2.0) returns, with the
\* thread ended or not; loop.stop(); loop.close()
MainClose ==
    /\ main = "join"
    /\ main' = "closed"
    /\ UNCHANGED <<smoother, ghost, pipeline, steps, variant, emit_gap,
                   stop_event, prod, ready, enqueued, queue, last_put, held, sent,
                   server_open, call, entry, stream, hub>>

BridgeNext ==
    \/ TakeFrame
    \/ GestureBody
    \/ ExprBody
    \/ Quit
    \/ Crash
    \/ FinallySetStop
    \/ FinallyEnqueue
    \/ RunPut
    \/ ConsumerCheck
    \/ ConsumerGet
    \/ Broadcast
    \/ CloseServer
    \/ Signal
    \/ MainStop
    \/ MainClose

BridgeSpec == BridgeSpecInit /\ [][BridgeNext]_vars

\* The scheduling the two threads give: a loop body that has a frame runs to
\* its end, the finally clause of run_detection runs to its end, the event
\* loop runs every scheduled callback and resumes every coroutine that can
\* go on, and main goes on once run_until_complete has returned.  Nothing
\* makes the stream deliver a frame (stream.frames() retries for ever on a
\* source that is gone) and nothing makes a signal arrive.
FairBridgeSpec ==
    /\ BridgeSpec
    /\ WF_vars(GestureBody \/ ExprBody \/ Quit \/ Crash)
    /\ WF_vars(FinallySetStop \/ FinallyEnqueue)
    /\ WF_vars(RunPut)
    /\ WF_vars(ConsumerCheck \/ ConsumerGet \/ Broadcast \/ CloseServer)
    /\ WF_vars(MainStop \/ MainClose)

(***************************************************************************)
(* MJPEGStream of utils/stream_client.py: open, close and the generator    *)
(* frames.  The buffer is a sequence of bytes, of which the model keeps    *)
(* the three that make the JPEG markers and one other.                     *)
(***************************************************************************)

\* Most bytes the buffer holds.
MaxBuffer == 6

\* Most bytes of a chunk (chunk_size).
MaxChunk == 2

Bytes == {"FF", "D8", "D9", "00"}

\* What iter_content may deliver: the chunks of 1 to MaxChunk bytes.
Chunks == UNION {[1..n -> Bytes] : n \in 1..MaxChunk}

\* bytearray.find of the two bytes x y: the least index at which they
\* stand, 0 where Python gives -1.
Find(b, x, y) ==
    LET at == {i \in 1..(Len(b) - 1) : b[i] = x /\ b[i + 1] = y}
    IN  IF at = {} THEN 0 ELSE CHOOSE i \in at : \A j \in at : i <= j

\* MJPEGStream.open with _response r and n responses open: the new
\* _response, the new number and whether open raised.  requests.get answers
\* (o = "ok"), raises (o = "refused"), or answers with a status that
\* raise_for_status raises on, after _response was assigned (o = "status").
Open(r, n, o) ==
    IF r # "none" THEN <<r, n, FALSE>>
    ELSE CASE o = "ok" -> <<"live", n + 1, FALSE>>
           [] o = "refused" -> <<"none", n, TRUE>>
           [] o = "status" -> <<"spent", n + 1, TRUE>>

OpenOutcomes == {"ok", "refused", "status"}

\* MJPEGStream.close
Close(r, n) == IF r # "none" THEN <<"none", n - 1>> ELSE <<r, n>>

StreamSpecInit ==
    /\ SmootherInit(DefaultWindow, DefaultMinSwitch, DefaultMinConf, DefaultEma)
    /\ GhostInit
    /\ LoopInit
    /\ BridgeInit("gesture", WsRate * 100)
    /\ call = NoCall
    /\ EntryInit
    /\ \E r \in {"none", "live"} : StreamInit(r)
    /\ NoHub

\* The first next() on frames(): open() if no response is held, outside
\* every try.
FramesStart ==
    /\ spc = "start"
    /\ \E o \in OpenOutcomes :
          LET opened == Open(response, open_count, o)
          IN  /\ response' = opened[1]
              /\ open_count' = opened[2]
              /\ spc' = IF opened[3] THEN "raised" ELSE "read"
    /\ UNCHANGED <<buffer, cut, appended>>
    /\ UNCHANGED <<smoother, ghost, pipeline, steps, bridge, call, entry, hub>>

\* One turn of the for loop on a chunk that is not empty: the buffer is
\* extended, and if the first start marker stands before the first end
\* marker the bytes from the one through the other are cut out and the
\* buffer loses everything up to the end marker; cv2.imdecode makes a frame
\* of the candidate, which is yielded, or gives None.
Chunk ==
    /\ spc = "read"
    /\ response = "live"
    /\ \E chunk \in Chunks, decoded \in BOOLEAN :
          /\ Len(buffer) + Len(chunk) <= MaxBuffer
          /\ LET extended == buffer \o chunk
                 start == Find(extended, "FF", "D8")
                 end == Find(extended, "FF", "D9")
             IN  /\ appended' = extended
                 /\ IF start # 0 /\ end # 0 /\ end > start
                    THEN /\ cut' = <<SubSeq(extended, start, end + 1)>>
                         /\ buffer' = SubSeq(extended, end + 2, Len(extended))
                         /\ spc' = IF decoded THEN "yield" ELSE "read"
                    ELSE /\ cut' = <<>>
                         /\ buffer' = extended
                         /\ spc' = "read"
    /\ UNCHANGED <<response, open_count>>
    /\ UNCHANGED <<smoother, ghost, pipeline, steps, bridge, call, entry, hub>>

\* The caller asks for the next frame.
Resume ==
    /\ spc = "yield"
    /\ spc' = "read"
    /\ UNCHANGED <<response, open_count, buffer, cut, appended>>
    /\ UNCHANGED <<smoother, ghost, pipeline, steps, bridge, call, entry, hub>>

\* Reading raises: a network error on a live response, the end of the
\* stream, a response that delivers no more, or the assert on a _response
\* that is None.  except Exception: self.close()
ReadFails ==
    /\ spc = "read"
    /\ LET closed == Close(response, open_count)
       IN  response' = closed[1] /\ open_count' = closed[2]
    /\ spc' = "closed"
    /\ cut' = <<>>
    /\ appended' = <<>>
    /\ UNCHANGED buffer
    /\ UNCHANGED <<smoother, ghost, pipeline, steps, bridge, call, entry, hub>>

\* The handler after its sleep: open() and buffer.clear(), or open() raises
\* and the buffer is kept; continue in both cases.
Reopen ==
    /\ spc = "closed"
    /\ \E o \in OpenOutcomes :
          LET opened == Open(response, open_count, o)
          IN  /\ response' = opened[1]
              /\ open_count' = opened[2]
              /\ buffer' = IF opened[3] THEN buffer ELSE <<>>
    /\ spc' = "read"
    /\ UNCHANGED <<cut, appended>>
    /\ UNCHANGED <<smoother, ghost, pipeline, steps, bridge, call, entry, hub>>

StreamNext ==
    \/ FramesStart
    \/ Chunk
    \/ Resume
    \/ ReadFails
    \/ Reopen

StreamSpec == StreamSpecInit /\ [][StreamNext]_vars

(***************************************************************************)
(* WebSocketHub and the connection handler of websocket_main, in both      *)
(* scripts.  The coroutines run on one event loop, each up to its next     *)
(* await; the lock of the hub is never held across an await, so taking it  *)
(* never suspends.                                                         *)
(***************************************************************************)

\* Number of broadcasts.
MaxCasts == 2

\* The hello message among the messages of an inbox; the broadcast messages
\* are numbered from 1.
Hello == 0

\* --ws-path: the default, and the empty string.
WsPaths == {DefaultWsPath, ""}

\* The paths clients ask for.
RequestPaths == {DefaultWsPath, "/other"}

\* What the handler knows of the request path rp.  The expression script
\* is passed it.  The gesture script takes the argument path, or ws.path
\* when it is passed none, or None when the connection has no such
\* attribute.
EffectivePaths(v, rp) == IF v = "gesture" THEN {rp, None} ELSE {rp}

\* The test of the handler: the connection is closed with code 1008.
Refused(v, configured, effective_path) ==
    IF v = "gesture"
    THEN configured # "" /\ effective_path # None /\ effective_path # configured
    ELSE configured # "" /\ effective_path # configured

\* if ws in self._clients: self._clients.remove(ws): the first entry equal
\* to w is taken out.
Remove(cl, w) ==
    LET at == {i \in 1..Len(cl) : cl[i] = w}
    IN  IF at = {} THEN cl
        ELSE LET k == CHOOSE i \in at : \A j \in at : i <= j
             IN  SubSeq(cl, 1, k - 1) \o SubSeq(cl, k + 1, Len(cl))

\* The targets of a broadcast: the gesture script takes list(self._clients),
\* the expression script the clients that are not closed.
Targets(v, cl, cn) ==
    IF v = "gesture" THEN cl
    ELSE SelectSeq(cl, LAMBDA w : cn[w] # "closed")

HubSpecInit ==
    /\ SmootherInit(DefaultWindow, DefaultMinSwitch, DefaultMinConf, DefaultEma)
    /\ GhostInit
    /\ LoopInit
    /\ \E c \in {<<"gesture", WsRate * 100>>, <<"expression", ExprWsRate * 100>>} :
          BridgeInit(c[1], c[2])
    /\ call = NoCall
    /\ EntryInit
    /\ NoStream
    /\ \E p \in WsPaths : HubInit(p)

\* A client connects: the handler runs up to its first await, which is the
\* close of a refused connection or, in register, the send of the hello.
Connect ==
    \E w \in Sockets, rp \in RequestPaths :
        \E effective_path \in EffectivePaths(variant, rp) :
            /\ conn[w] = "new"
            /\ mismatch' = IF rp # ws_path THEN mismatch \cup {w} ELSE mismatch
            /\ IF Refused(variant, ws_path, effective_path)
               THEN conn' = [conn EXCEPT ![w] = "rejected"] /\ clients' = clients
               ELSE conn' = [conn EXCEPT ![w] = "hello"] /\ clients' = Append(clients, w)
            /\ UNCHANGED <<ws_path, inbox, casting, last_cast>>
            /\ UNCHANGED <<smoother, ghost, pipeline, steps, bridge, call, entry, stream>>

\* await ws.send(hello) returns; the handler waits in ws.wait_closed().
HelloSent ==
    \E w \in Sockets :
        /\ conn[w] = "hello"
        /\ inbox' = [inbox EXCEPT ![w] = Append(@, Hello)]
        /\ conn' = [conn EXCEPT ![w] = "open"]
        /\ UNCHANGED <<ws_path, clients, mismatch, casting, last_cast>>
        /\ UNCHANGED <<smoother, ghost, pipeline, steps, bridge, call, entry, stream>>

\* await ws.send(hello) raises: the finally clause of register removes the
\* websocket.
HelloRaises ==
    \E w \in Sockets :
        /\ conn[w] = "hello"
        /\ clients' = Remove(clients, w)
        /\ conn' = [conn EXCEPT ![w] = "done"]
        /\ UNCHANGED <<ws_path, inbox, mismatch, casting, last_cast>>
        /\ UNCHANGED <<smoother, ghost, pipeline, steps, bridge, call, entry, stream>>

\* The connection closes; the handler is not resumed yet.
ConnDrops ==
    \E w \in Sockets :
        /\ conn[w] = "open"
        /\ conn' = [conn EXCEPT ![w] = "closed"]
        /\ UNCHANGED <<ws_path, clients, inbox, mismatch, casting, last_cast>>
        /\ UNCHANGED <<smoother, ghost, pipeline, steps, bridge, call, entry, stream>>

\* ws.wait_closed() returns: the finally clause of register removes the
\* websocket and the handler ends.
HandlerEnds ==
    \E w \in Sockets :
        /\ conn[w] = "closed"
        /\ clients' = Remove(clients, w)
        /\ conn' = [conn EXCEPT ![w] = "done"]
        /\ UNCHANGED <<ws_path, inbox, mismatch, casting, last_cast>>
        /\ UNCHANGED <<smoother, ghost, pipeline, steps, bridge, call, entry, stream>>

\* The number of the next message.
NextMessage == IF last_cast = <<>> THEN 1 ELSE last_cast[1].msg + 1

\* hub.broadcast(message) up to its gather: it returns at once without
\* clients or without targets.
BroadcastStart ==
    /\ casting = <<>>
    /\ NextMessage <= MaxCasts
    /\ LET targets == IF clients = <<>> THEN <<>>
                      ELSE Targets(variant, clients, conn)
           cast == [msg |-> NextMessage, todo |-> targets, targets |-> targets,
                    failed |-> {}]
       IN  IF targets = <<>>
           THEN casting' = <<>> /\ last_cast' = <<cast>>
           ELSE casting' = <<cast>> /\ last_cast' = last_cast
    /\ UNCHANGED <<ws_path, clients, conn, inbox, mismatch>>
    /\ UNCHANGED <<smoother, ghost, pipeline, steps, bridge, call, entry, stream>>

\* Mutant of SendNext: a send that raises ends the broadcast.
SendNextAborts ==
    /\ casting # <<>>
    /\ LET cast == casting[1]
           w == Head(cast.todo)
       IN  IF conn[w] \in {"hello", "open"}
           THEN /\ inbox' = [inbox EXCEPT ![w] = Append(@, cast.msg)]
                /\ IF Tail(cast.todo) = <<>>
                   THEN casting' = <<>> /\ last_cast' = <<[cast EXCEPT !.todo = <<>>]>>
                   ELSE casting' = <<[cast EXCEPT !.todo = Tail(@)]>> /\ last_cast' = last_cast
           ELSE /\ inbox' = inbox
                /\ casting' = <<>>
                /\ last_cast' = <<[cast EXCEPT !.todo = <<>>, !.failed = @ \cup {w}]>>
    /\ UNCHANGED <<ws_path, clients, conn, mismatch>>
    /\ UNCHANGED <<smoother, ghost, pipeline, steps, bridge, call, entry, stream>>

\* One _safe_send of the gather: client.send(message) delivers on a
\* connection that is not closed and raises on a closed one, which
\* _safe_send swallows; the gather ends with its last send.
SendNext ==
    /\ casting # <<>>
    /\ LET cast == casting[1]
           w == Head(cast.todo)
           ok == conn[w] \in {"hello", "open"}
           after == [cast EXCEPT !.todo = Tail(@),
                                 !.failed = IF ok THEN @ ELSE @ \cup {w}]
       IN  /\ inbox' = IF ok THEN [inbox EXCEPT ![w] = Append(@, cast.msg)] ELSE inbox
           /\ IF after.todo = <<>>
              THEN casting' = <<>> /\ last_cast' = <<after>>
              ELSE casting' = <<after>> /\ last_cast' = last_cast
    /\ UNCHANGED <<ws_path, clients, conn, mismatch>>
    /\ UNCHANGED <<smoother, ghost, pipeline, steps, bridge, call, entry, stream>>

HubNext ==
    \/ Connect
    \/ HelloSent
    \/ HelloRaises
    \/ ConnDrops
    \/ HandlerEnds
    \/ BroadcastStart
    \/ SendNext

HubSpec == HubSpecInit /\ [][HubNext]_vars

(***************************************************************************)
(* Properties of GestureSmoother.update.  The ghost variables hold the     *)
(* argument and the state on entry of the latest call, so each property    *)
(* of one call is a predicate of the state after it.                       *)
(***************************************************************************)

Updated == last_new # <<>>
Incoming == last_new[1]

\* g is a most frequent label of h.
MostFrequent(h, g) == \A i \in 1..Len(h) : CountOf(h, h[i]) <= CountOf(h, g)

\* g is the one most frequent label of h.
StrictlyMostFrequent(h, g) ==
    \A i \in 1..Len(h) : h[i] # g => CountOf(h, h[i]) < CountOf(h, g)

\* The latest call changed a committed label into another one.
Switched == Updated /\ prev_label # None /\ current_label # prev_label

\* C1: when update changes the committed label from a label X to another label
\* Y, Y is a most frequent label of the window as it is after admission and
\* occurs in it at least min_switch times.
C1_SwitchHasSupport ==
    Switched =>
        /\ MostFrequent(history, current_label)
        /\ CountOf(history, current_label) >= min_switch

C1_Witness ==
    /\ Switched
    /\ Incoming.gesture = current_label
    /\ CountOf(prev_history, current_label) = min_switch - 1

\* C2: after the first commit an update with a confidence below min_conf keeps
\* the committed label, idle observations included; a switch needs both the
\* count of the new label >= min_switch and the confidence >= min_conf.
C2_LowConfidenceKeepsLabel ==
    /\ (Updated /\ prev_label # None /\ Incoming.confidence < min_conf)
           => current_label = prev_label
    /\ Switched =>
           /\ CountOf(history, current_label) >= min_switch
           /\ Incoming.confidence >= min_conf

C2_Witness ==
    /\ Updated
    /\ prev_label \notin {None, "idle"}
    /\ Incoming.gesture = "idle"
    /\ Incoming.confidence < min_conf
    /\ StrictlyMostFrequent(history, "idle")
    /\ CountOf(history, "idle") >= min_switch
    /\ current_label = prev_label

\* The latest call ended a run of n or more consecutive confident observations
\* of one label Y that began with another label X committed.
RunOf(n) ==
    /\ Updated
    /\ run_len >= n
    /\ run_from # None
    /\ run_from # Incoming.gesture

\* C3 as claimed: after min_switch consecutive confident observations of a
\* label Y, fed to a smoother with another label X committed, the committed
\* label is Y.
C3_Original ==
    (RunOf(min_switch) /\ run_len = min_switch) => current_label = Incoming.gesture

\* C3 amended: the same after window \div 2 + 1 consecutive confident
\* observations of Y (5 with the defaults), which make Y the one most frequent
\* label of the window.
C3_MajorityRunCommits ==
    RunOf(window \div 2 + 1) => current_label = Incoming.gesture

C3_Witness ==
    /\ RunOf(window \div 2 + 1)
    /\ prev_label = run_from
    /\ current_label = Incoming.gesture

\* The latest call brought a label Y other than the committed label X, and Y
\* has fewer than min_switch entries in the window after admission.
Blip ==
    /\ Updated
    /\ prev_label # None
    /\ Incoming.gesture # prev_label
    /\ CountOf(history, Incoming.gesture) < min_switch

\* C4 as claimed: such an update leaves the committed label X.
C4_Original == Blip => current_label = prev_label

\* C4 amended: such an update never commits Y; the committed label stays X or
\* becomes the candidate of the vote, a label Z other than Y with at least
\* min_switch entries, and the latter only at a confidence >= min_conf.
C4_BlipNeverCommitted ==
    Blip =>
        /\ current_label # Incoming.gesture
        /\ \/ current_label = prev_label
           \/ /\ current_label = Candidate(history, Incoming.gesture)
              /\ CountOf(history, current_label) >= min_switch
              /\ Incoming.confidence >= min_conf

C4_Witness ==
    /\ Blip
    /\ Incoming.confidence >= min_conf
    /\ Len(prev_history) = window
    /\ CountOf(history, Incoming.gesture) = 1
    /\ current_label = prev_label

\* C6: when the incoming label Y is not the committed one and is, after
\* admission, the one most frequent label of the window with at least
\* min_switch entries, and the confidence is >= min_conf, update commits Y.
C6_SupportedLabelCommitted ==
    (/\ Updated
     /\ prev_label # None
     /\ Incoming.gesture # prev_label
     /\ StrictlyMostFrequent(history, Incoming.gesture)
     /\ CountOf(history, Incoming.gesture) >= min_switch
     /\ Incoming.confidence >= min_conf)
        => current_label = Incoming.gesture

C6_Witness ==
    /\ Switched
    /\ Incoming.gesture = "open_palm"
    /\ CountOf(history, "open_palm") = 5
    /\ StrictlyMostFrequent(history, "open_palm")
    /\ current_label = "open_palm"

C8_WindowBounded ==
    /\ Len(history) <= window
    /\ (/\ Updated
        /\ Len(prev_history) = window
        /\ (Incoming.confidence >= min_conf \/ Incoming.gesture = "idle"))
           => history = Append(Tail(prev_history), Incoming.gesture)

C8_Witness ==
    /\ Updated
    /\ Len(prev_history) = window
    /\ Incoming.confidence >= min_conf
    /\ prev_history[1] # prev_history[2]
    /\ history = Append(Tail(prev_history), Incoming.gesture)

\* C9: after the first update current_label is never None, and it is the
\* gesture of an observation that was passed to update.
C9_LabelWasObserved ==
    Updated => (current_label # None /\ current_label \in seen)

C9_Witness ==
    /\ Updated
    /\ prev_label # None
    /\ current_label # Incoming.gesture
    /\ current_label # prev_label

\* C10: the first update commits the incoming label whatever its confidence,
\* admitted to the window or not; a later update with the committed label keeps
\* it whatever its confidence and the window.
C10_FirstCommitAndSameLabel ==
    /\ (Updated /\ prev_label = None) => current_label = Incoming.gesture
    /\ (Updated /\ prev_label # None /\ Incoming.gesture = prev_label)
           => current_label = prev_label

C10_Witness ==
    /\ Updated
    /\ prev_label = None
    /\ Incoming.gesture # "idle"
    /\ Incoming.confidence < min_conf
    /\ history = <<>>
    /\ current_label = Incoming.gesture

(***************************************************************************)
(* Properties of the detection loop.                                       *)
(***************************************************************************)

\* The gesture of the record the smoother returned in the latest frame.
OutputGesture == IF smoothed = <<>> THEN None ELSE smoothed[1].gesture

\* C5: if from some frame on no frame shows a hand, the gesture of the
\* smoother's output eventually is "idle": at every time, a later frame shows a
\* hand or a later output is "idle".
C5_IdleAfterHandLeft == []<>(hand \/ OutputGesture = "idle")

(***************************************************************************)
(* Properties of classify, classify_expression and ExpressionMapper.map:   *)
(* predicates of a call once it has returned.                              *)
(***************************************************************************)

Called(fn) == call.fn = fn /\ call.out # <<>>
Result == call.out[1]

\* C15: classify and classify_expression each return one label with a
\* confidence in [0, 1]; the label classify returns is a key of its style
\* table, and it is "mixed", with confidence 0.6, exactly when no rule of the
\* chain matches.
C15_OneLabelConfidenceInRange ==
    /\ Called("classify") =>
          /\ Result.gesture \in StyleKeys
          /\ Result.confidence >= 0 /\ Result.confidence <= 100
          /\ Result.gesture = "mixed" <=>
                \A i \in 1..Len(Rules(call.arg)) : ~Rules(call.arg)[i][1]
          /\ Result.gesture = "mixed" => Result.confidence = 60
    /\ Called("classify_expression") =>
          /\ Result.label \in {ScoreOrder[i] : i \in 1..Len(ScoreOrder)}
          /\ Result.confidence >= 0 /\ Result.confidence <= 100

\* classify has returned "mixed" for a hand that matches no rule.
C15_Witness ==
    /\ Called("classify")
    /\ Result.gesture = "mixed"
    /\ call.arg.thumb /\ ~call.arg.index /\ call.arg.middle

\* C16: the hue that classify and ExpressionMapper.map return for a center
\* in the unit square is at least 0 and below 360.
C16_HueInRange ==
    /\ Called("classify") => Result.hue >= 0 /\ Result.hue < 36000
    /\ Called("map") => Result.hue >= 0 /\ Result.hue < 36000

\* C18: for a label outside its table, map returns what it returns for
\* "neutral": hue 180 + 120 x, the launch power of the center, density 0.8
\* modulated by the confidence, twist 0 and style "embers".
C18_UnknownLabelAsNeutral ==
    Called("map") /\ call.arg.label \notin DOMAIN style_map =>
        Result = [hue |-> (18000 + call.arg.center[1] * 120) % 36000,
                  launch_power |-> Max(15, Min(100 - call.arg.center[2], 95)),
                  spark_density |->
                      Max(20, Min((80 * (7000 + 60 * call.arg.confidence))
                                      \div 10000, 190)),
                  twist |-> 0,
                  style |-> "embers"]

\* map has returned for the label "idle", which its table does not have.
C18_Witness == Called("map") /\ call.arg.label = "idle"

\* The base density and the twist of each label of the table.
ExpectedDensity ==
    [happy |-> 140, surprised |-> 160, angry |-> 120, sad |-> 60,
     neutral |-> 80, unknown |-> 80]
ExpectedTwist ==
    [happy |-> 15, surprised |-> 25, angry |-> -20, sad |-> -10,
     neutral |-> 0, unknown |-> 0]

\* C19: for a label of its table, map returns hue = (base_hue[label] +
\* 120 x) mod 360, launch_power = clamp(1 - y, 0.15, 0.95), spark_density =
\* clamp(base_density[label] * (0.7 + 0.6 confidence), 0.2, 1.9), the twist
\* of the label and style_map[label].
C19_MapFormulas ==
    Called("map") /\ call.arg.label \in DOMAIN style_map =>
        LET label == call.arg.label
            x == call.arg.center[1]
            y == call.arg.center[2]
            confidence == call.arg.confidence
        IN  /\ Result.hue = (base_hue[label] + 120 * x) % 36000
            /\ Result.launch_power = Max(15, Min(100 - y, 95))
            /\ Result.spark_density =
                   Max(20, Min((ExpectedDensity[label] * (7000 + 60 * confidence))
                                   \div 10000, 190))
            /\ Result.twist = ExpectedTwist[label]
            /\ Result.style = style_map[label]

\* map has returned for "surprised" at full confidence, where the density
\* 1.6 * 1.3 is cut to 1.9.
C19_Witness ==
    /\ Called("map")
    /\ call.arg.label = "surprised"
    /\ call.arg.confidence = 100
    /\ Result.spark_density = 190

FistCall == [label |-> "fist", center |-> <<50, 50>>, confidence |-> 100]

\* C20 as stated: map("fist", (0.5, 0.5), 1.0) yields spark_density 1.56.
C20_Original ==
    Called("map") /\ call.arg = FistCall => Result.spark_density = 156

\* C20: map("fist", (0.5, 0.5), 1.0) yields spark_density 1.04, the density
\* of "neutral": "fist" is not a label of the table.
C20_FistDensity ==
    Called("map") /\ call.arg = FistCall => Result.spark_density = 104

\* map("fist", (0.5, 0.5), 1.0) has returned.
C20_Witness == Called("map") /\ call.arg = FistCall /\ Result.style = "embers"

(***************************************************************************)
(* Range of the smoothed record.                                           *)
(***************************************************************************)

InUnit(x) == x >= 0 /\ x <= 100

\* C17: with the observations' confidence and center in [0, 1] and
\* 0 <= alpha <= 1, the confidence, center.x and center.y of every record
\* update returns are in [0, 1].
C17_SmoothedInUnitRange ==
    smoothed # <<>> =>
        /\ InUnit(smoothed[1].confidence)
        /\ InUnit(smoothed[1].center[1])
        /\ InUnit(smoothed[1].center[2])

\* update has blended three observations under alpha = 0.33: the smoothed
\* values are none of the observed ones.
C17_Witness ==
    /\ steps = 3
    /\ alpha = 33
    /\ smoothed[1].confidence \notin {0, 37, 100}
    /\ smoothed[1].center[1] \notin {0, 33, 100}

(***************************************************************************)
(* Properties of the bridge between the detection thread and the event     *)
(* loop.                                                                   *)
(***************************************************************************)

Range(s) == {s[i] : i \in 1..Len(s)}

\* C11: enqueue_payload never fails the producer (it takes one step and
\* never blocks); the queue never holds more than 4 items; a _put that finds
\* it full drops exactly the oldest item and appends the new one; and the
\* item put last is in the queue until the consumer takes it.  For both
\* scripts.
C11_EnqueueNeverFails ==
    /\ prod # "raised"
    /\ Len(queue) <= QueueMax
    /\ last_put # <<>> =>
          LET p == last_put[1]
          IN  /\ p.after = IF Len(p.before) = QueueMax
                           THEN Append(Tail(p.before), p.item)
                           ELSE Append(p.before, p.item)
              /\ \/ p.item \in Range(queue)
                 \/ held = <<p.item>>

C13_RateLimit == emit_gap * ws_rate >= 10000

\* C14: in both scripts the label of an emitted record is the label the
\* smoother has committed for that frame.
C14_EmitsCommittedLabel ==
    payload # <<>> /\ payload[1].type = "gesture" /\ emit_age = 0 =>
        payload[1].gesture = current_label

(***************************************************************************)
(* The averaging of update, in a smoother under several alphas: predicates *)
(* of the state after a call, with the state on its entry.                 *)
(***************************************************************************)

\* The numeric fields of a record, center.x and center.y apart.
Numeric(r) ==
    <<r.confidence, r.hue, r.launch_power, r.spark_density, r.twist,
      r.center[1], r.center[2], r.spread, r.pinch_strength>>

\* C23: the first update returns the numeric fields of the observation as
\* they are; every later update sets each numeric field to
\* prev*(1-alpha) + new*alpha, prev being the value the previous update
\* returned.
C23_SeedThenEma ==
    smoothed # <<>> /\ steps > 0 =>
        LET out == Numeric(smoothed[1])
            new == Numeric(last_new[1])
        IN  IF prev_smoothed = <<>>
            THEN out = new
            ELSE \A i \in 1..Len(out) :
                    out[i] = (Numeric(prev_smoothed[1])[i] * (100 - alpha)
                              + new[i] * alpha) \div 100

\* A later update, under the default alpha, of a record with an observation
\* that differs from it in every numeric field.
C23_Witness ==
    /\ steps >= 2
    /\ alpha = DefaultEma
    /\ prev_smoothed # <<>>
    /\ \A i \in 1..9 : Numeric(prev_smoothed[1])[i] # Numeric(last_new[1])[i]

StrongestOther(scores) ==
    Max(Max(scores.surprised, scores.happy), Max(scores.angry, scores.sad))

\* C21: the final neutral score of classify_expression is
\* max(0, 0.5 - 0.6 m), m being the strongest score among surprised, happy,
\* angry and sad; it stays 0.5 when none of their rules fires; and the label
\* returned has the highest of the final scores.
C21_NeutralPenalty ==
    Called("classify_expression") =>
        LET rule == RuleScores(call.arg)
            m == StrongestOther(rule)
            final == [rule EXCEPT !.neutral = Max(0, 50 - (60 * m) \div 100)]
        IN  /\ Scores(call.arg).neutral = final.neutral
            /\ m = 0 => Scores(call.arg).neutral = 50
            /\ \A k \in DOMAIN final : final[k] <= final[Result.label]

\* The rules of classify that are the first match of some hand.
FirstMatchedRules == {FirstMatch(HandOf(c)) : c \in Hands} \ {0}

\* C22: every rule of the chain of classify is the first match of at least
\* one hand, so none is hidden behind the rules before it: whenever the
\* predicate of a rule holds for the classified hand, that rule is the first
\* match of some hand.
C22_EveryRuleIsFirstMatch ==
    Called("classify") =>
        \A j \in 1..Len(Rules(call.arg)) :
            Rules(call.arg)[j][1] => j \in FirstMatchedRules

(***************************************************************************)
(* The record update returns: its label, its copied fields, and the        *)
(* frames without a hand.                                                  *)
(***************************************************************************)

\* C25: in the rules backend every frame without a hand updates the smoother
\* with the idle observation (gesture idle, center (0.5, 0.6)), whose
\* confidence is 0.2 once the hand has been away for more than 0.75 s, and
\* the record that frame results in is then that idle observation.
C25_IdleRecordWhenNoHand ==
    ~hand /\ Updated =>
        /\ Incoming.gesture = "idle"
        /\ Incoming.center = <<50, 60>>
        /\ presence_age > PresenceTimeout =>
               Incoming = Idle /\ smoothed[1] = Idle

C28_StyleOfGesture ==
    smoothed # <<>> => smoothed[1].style = StyleOf(smoothed[1].gesture)

(***************************************************************************)
(* The candidate of the vote and the labels update can commit.             *)
(***************************************************************************)

\* The index at which g is met first, scanning h from the oldest entry.
FirstMet(h, g) == CHOOSE i \in 1..Len(h) : h[i] = g /\ \A j \in 1..(i - 1) : h[j] # g

\* Of the labels with the highest count in h, the one met first.
FirstMetMostFrequent(h) ==
    CHOOSE g \in Range(h) :
        /\ MostFrequent(h, g)
        /\ \A g2 \in Range(h) : MostFrequent(h, g2) => FirstMet(h, g) <= FirstMet(h, g2)

\* The latest call held the vote, on a window that is not empty, at a
\* confidence that allows a switch.
Voted ==
    /\ Updated
    /\ prev_label # None
    /\ Incoming.gesture # prev_label
    /\ Incoming.confidence >= min_conf
    /\ history # <<>>

\* The window holds window \div 2 entries of x followed by as many of y.
HalfAndHalf(h, x, y) ==
    /\ Len(h) = window
    /\ \A i \in 1..Len(h) : h[i] = (IF i <= window \div 2 THEN x ELSE y)

\* C27: when several labels tie for the highest count, the candidate of the
\* vote is the tied label met first scanning the window from oldest to
\* newest: a confident update commits that label when it has min_switch
\* entries and keeps the committed one otherwise; so after a full window of X,
\* four confident Y make a 4-4 tie and the label stays X.
C27_TieGoesToFirstMet ==
    Voted =>
        LET c == FirstMetMostFrequent(history)
        IN  /\ current_label = (IF CountOf(history, c) >= min_switch THEN c ELSE prev_label)
            /\ HalfAndHalf(history, prev_label, Incoming.gesture) => current_label = prev_label

\* The 4-4 tie: four X then four Y in the window, X committed, Y incoming and
\* confident, X kept.
C27_Witness ==
    /\ Voted
    /\ window = DefaultWindow
    /\ min_switch = DefaultMinSwitch
    /\ HalfAndHalf(history, prev_label, Incoming.gesture)
    /\ run_len = DefaultMinSwitch
    /\ current_label = prev_label

\* C29 as stated: after every update the committed label is the previous
\* committed label or the incoming one, never a third label.
C29_Original ==
    Updated /\ prev_label # None =>
        current_label = prev_label \/ current_label = Incoming.gesture

\* C29 amended: after every update the committed label is the previous one,
\* or the incoming one at the first commit, or a most frequent label of the
\* window with at least min_switch entries, committed by a confident
\* observation of a label other than the previous one; that label need not be
\* the incoming one.
C29_CommittedLabelHasSource ==
    Updated =>
        \/ current_label = prev_label
        \/ prev_label = None /\ current_label = Incoming.gesture
        \/ /\ prev_label # None
           /\ Incoming.gesture # prev_label
           /\ Incoming.confidence >= min_conf
           /\ CountOf(history, current_label) >= min_switch
           /\ MostFrequent(history, current_label)

\* A confident fist frame commits idle over open_palm.
C29_Witness ==
    /\ Switched
    /\ prev_label = "open_palm"
    /\ Incoming.gesture = "fist"
    /\ Incoming.confidence >= min_conf
    /\ current_label = "idle"

(***************************************************************************)
(* Termination after the stop event.                                       *)
(***************************************************************************)

\* C30: once the stop event is set (a signal, the key q, a crash of the
\* detection loop), in every execution the producer loop eventually exits
\* and the consumer loop eventually terminates, also when the frame source
\* yields no further frame and the queue is empty.
C30_StopTerminates ==
    /\ stop_event ~> (prod \in {"shutdown", "returned", "raised"})
    /\ stop_event ~> (main \notin {"check", "get", "broadcast"})

(***************************************************************************)
(* The constructor of GestureSmoother.                                     *)
(***************************************************************************)

\* C37: the constructor forces window >= 3 and min_switch >= 2 and accepts a
\* min_switch_count above the window; a smoother built so never changes its
\* committed label after the first commit, whatever it is fed.
C37_SwitchCountAboveWindow ==
    /\ window >= 3
    /\ min_switch >= 2
    /\ min_switch > window => ~Switched

\* A smoother with min_switch above its window keeps fist although the
\* window is full of confident open_palm.
C37_Witness ==
    /\ min_switch > window
    /\ Updated
    /\ prev_label = "fist"
    /\ current_label = "fist"
    /\ Incoming.gesture = "open_palm"
    /\ Incoming.confidence >= min_conf
    /\ Len(history) = window
    /\ CountOf(history, "open_palm") = window

(***************************************************************************)
(* The order of the items between the detection thread and the consumer.   *)
(***************************************************************************)

\* The sentinel occurs in s at its end only.
SentinelLast(s) == \A i \in 1..Len(s) : s[i] = Shutdown => i = Len(s)

\* A step leaves a queued sentinel in the queue, or hands it to the consumer.
SentinelKept ==
    Shutdown \in Range(queue) =>
        (Shutdown \in Range(queue') \/ held' = <<Shutdown>>)

\* C31: the shutdown sentinel is the last item the producer ever enqueues,
\* so nothing is scheduled or queued behind it; no _put evicts it; and once
\* in the queue it stays there until the consumer takes it, also when the
\* consumer has left its loop.
C31_SentinelStaysQueued ==
    /\ [](/\ SentinelLast(enqueued)
          /\ SentinelLast(queue \o ready)
          /\ last_put # <<>> /\ Len(last_put[1].before) = QueueMax =>
                 Head(last_put[1].before) # Shutdown)
    /\ [][SentinelKept]_vars

\* The _put of the sentinel found the queue full and evicted a record; the
\* sentinel waits at the end of the queue, the consumer still in its loop.
C31_Witness ==
    /\ last_put # <<>>
    /\ last_put[1].item = Shutdown
    /\ Len(last_put[1].before) = QueueMax
    /\ queue[Len(queue)] = Shutdown
    /\ main \in {"check", "get", "broadcast"}

\* The items the consumer has taken from the queue, in order: those it has
\* broadcast, and the one it holds if it has not broadcast it.
Dequeued ==
    IF held # <<>> /\ (main = "broadcast" \/ held[1] = Shutdown)
    THEN Append(sent, held[1])
    ELSE sent

\* s is t with some of its entries left out.
RECURSIVE IsSubsequence(_, _)
IsSubsequence(s, t) ==
    IF s = <<>> THEN TRUE
    ELSE IF t = <<>> THEN FALSE
    ELSE IF Head(s) = Head(t) THEN IsSubsequence(Tail(s), Tail(t))
    ELSE IsSubsequence(s, Tail(t))

\* C32: what the consumer has dequeued, followed by what is queued and what
\* is scheduled, is a subsequence of what the producer enqueued, in the
\* order of enqueueing: a drop removes items and neither reorders nor
\* duplicates them, under every interleaving of the two threads.
C32_DequeuedInOrder ==
    IsSubsequence(Dequeued \o queue \o ready, enqueued)

\* Five items were enqueued, the _put of the fifth dropped the first, and the
\* consumer, which was waiting in queue.get(), has taken the second.
C32_Witness ==
    /\ Len(enqueued) = QueueMax + 1
    /\ ready = <<>>
    /\ Dequeued = <<enqueued[2]>>
    /\ queue = SubSeq(enqueued, 3, QueueMax + 1)

(***************************************************************************)
(* MJPEGStream.frames                                                      *)
(***************************************************************************)

\* b holds a start marker and, somewhere behind it, an end marker.
HoldsFrame(b) ==
    \E i, j \in 1..(Len(b) - 1) :
        /\ i + 2 <= j
        /\ b[i] = "FF" /\ b[i + 1] = "D8"
        /\ b[j] = "FF" /\ b[j + 1] = "D9"

\* C33: whenever the buffer, after a chunk was appended, holds a start
\* marker followed later by an end marker, the bytes from such a start
\* marker through such an end marker are cut out as a frame candidate and
\* the buffer loses everything up to that end marker, so no complete frame
\* stays in the buffer.
C33_CompleteFrameIsCut ==
    appended # <<>> /\ HoldsFrame(appended) =>
        \E i, j \in 1..(Len(appended) - 1) :
            /\ i + 2 <= j
            /\ appended[i] = "FF" /\ appended[i + 1] = "D8"
            /\ appended[j] = "FF" /\ appended[j + 1] = "D9"
            /\ cut = <<SubSeq(appended, i, j + 1)>>
            /\ buffer = SubSeq(appended, j + 2, Len(appended))

\* C34: frames never raises to its caller; at most one HTTP response is open
\* at any time, the one _response holds; and after close() none is.
C34_NeverRaisesOneResponse ==
    /\ spc # "raised"
    /\ open_count <= 1
    /\ open_count = 0 <=> response = "none"
    /\ spc = "closed" => open_count = 0

(***************************************************************************)
(* The client list of the hub and the path test of the handler.            *)
(***************************************************************************)

\* C35: a websocket is in the client list exactly from its registration to
\* the end of its handler, so it is out of it once the connection has closed
\* and the handler ended and once the hello raised; the list never holds a
\* websocket twice; and a broadcast in which a send failed has delivered its
\* message to every other target and removed no client.
C35_ClientListOfLiveHandlers ==
    /\ \A w \in Sockets :
          w \in Range(clients) <=> conn[w] \in {"hello", "open", "closed"}
    /\ \A i, j \in 1..Len(clients) : clients[i] = clients[j] => i = j
    /\ last_cast # <<>> =>
          \A w \in Range(last_cast[1].targets) \ last_cast[1].failed :
              last_cast[1].msg \in Range(inbox[w])

\* A broadcast to two clients ended: the send to the first failed, the
\* second got the message, and both are still in the list.
C35_Witness ==
    /\ last_cast # <<>>
    /\ Len(last_cast[1].targets) = 2
    /\ last_cast[1].failed = {last_cast[1].targets[1]}
    /\ last_cast[1].msg \in Range(inbox[last_cast[1].targets[2]])
    /\ Len(clients) = 2

\* C36: a connection whose request path is not the configured --ws-path is
\* closed with code 1008 and not registered: it is never in the client list
\* and is sent neither the hello nor a record.
C36_WrongPathRefused ==
    \A w \in mismatch :
        /\ conn[w] = "rejected"
        /\ w \notin Range(clients)
        /\ inbox[w] = <<>>

====
